---- MODULE Spec2Model ----
(***************************************************************************)
(* Order reconciliation and profit engine of the business dashboard:       *)
(* DropshippingMatcher.match_orders (pages/2_Order_Matcher.py), the        *)
(* international detector (utils/international_matcher.py), the profit     *)
(* calculation (utils/data_processor.py) and the rate handler              *)
(* (utils/exchange_rate_handler.py).                                       *)
(*                                                                         *)
(* Units.  Field scores are integer percents 0..100.  Composite scores are *)
(* kept in hundredths of a percent (7000 = 70.00%).  Money is kept in      *)
(* hundredths of a cent (100 = one cent); ledger amounts are in cents    *)
(* (or kurus for TRY).  Exchange rates are in hundredths (3500 = 35.00 TRY *)
(* per USD).  Dates are day numbers; time of day is not modelled.          *)
(* Floating point is modelled by exact arithmetic with round-half-up.      *)
(* The rates and amounts of the input ledgers are such that every figure   *)
(* the model rounds is rounded as Python's round() rounds the float.       *)
(***************************************************************************)
EXTENDS Integers, Sequences, FiniteSets, TLC

VARIABLES
    ebay_df,             \* storefront ledger, in input order
    amazon_combined_df,  \* supplier ledger (all accounts), in input order
    cfg,                 \* parameters of the current run: threshold, callback, weights, detector
    pc,                  \* "idle" | "matching" | "done" | "failed"
    ebay_idx,            \* position of match_orders' outer loop (1-based)
    used_amazon_orders,  \* composite keys already consumed in this run
    matches,             \* MatchRecords emitted by this run
    match_counter,       \* next master_no
    scanlog,             \* per visited storefront row: what its candidate scan saw
    prev,                \* results of the earlier runs of this session
    budget,              \* what is left to explore: runs, day changes, inputs of main()
    cache,               \* st.session_state["exchange_rate_cache"]
    counter,             \* st.session_state["api_request_count"]
    now,                 \* today's day number (datetime.now())
    clock,               \* time.time(), in milliseconds
    request_log,         \* the times at which requests were sent to the rate service
    issued_today,        \* requests sent to the rate service since midnight
    progress_log,        \* the storefront rows progress_callback was invoked for
    collection,          \* the records of the PocketBase collection, oldest first
    records,             \* the argument of bulk_upload_records
    upload_pc,           \* "idle" | "uploading" | "done"
    upload_i,            \* position of bulk_upload_records' loop (1-based)
    results              \* its counts: added, updated, errors

matcher_vars == <<ebay_df, amazon_combined_df, cfg, pc, ebay_idx, used_amazon_orders,
                  matches, match_counter, scanlog, prev, budget, cache, counter, now,
                  clock, request_log, issued_today, progress_log>>

upload_vars == <<collection, records, upload_pc, upload_i, results>>

vars == <<matcher_vars, upload_vars>>

ledgers == <<ebay_df, amazon_combined_df>>
session == <<cache, counter>>
pacing == <<clock, request_log, issued_today>>

(***************************************************************************)
(* Bounds of the model.                                                    *)
(***************************************************************************)
MaxEbay == 2
MaxAmazon == 2
MaxRuns == 2
MaxTicks == 1
MaxRecords == 2
DayLength == 86400000

(***************************************************************************)
(* Program constants.                                                      *)
(***************************************************************************)
max_cache_age_days == 30
max_daily_requests == 900
min_request_interval == 200
last_request_time == 0
CacheLimit == 200
EvictCount == 50
FixedRate == 3500
FALLBACK_RATE == 3400
name_threshold == 85
product_threshold == 50
InternationalCap == 9500

\* the weights a DropshippingMatcher is built with, in percent
default_weights == [name |-> 30, zip |-> 25, title |-> 25, city |-> 12, state |-> 8]

\* self.weights of the matcher of the current run
weights == cfg.weights

\* the weight sliders of main(): each is confined to its own range, their
\* total is not
SliderSettings ==
    { default_weights,
      [name |-> 50, zip |-> 50, title |-> 0, city |-> 0, state |-> 0],
      [name |-> 0, zip |-> 30, title |-> 50, city |-> 0, state |-> 20],
      [name |-> 50, zip |-> 50, title |-> 50, city |-> 30, state |-> 20] }

accepted_weights_unchecked(sliders) == sliders

\* main(): the slider weights replace the defaults only if they total 100
accepted_weights(sliders) ==
    IF sliders.name + sliders.zip + sliders.title + sliders.city + sliders.state = 100
    THEN sliders
    ELSE default_weights

Thresholds == {50, 70}

\* self.config of the InternationalMatcher of the current run
config == cfg.international_config

\* InternationalMatcher.__init__: the bars a new detector is built with
default_config == [name_threshold |-> name_threshold, product_threshold |-> product_threshold]

\* show_international_settings(): the checkbox and the two bar sliders
InternationalSettings ==
    { [enable_international |-> TRUE, name_threshold |-> 85, product_threshold |-> 50],
      [enable_international |-> FALSE, name_threshold |-> 85, product_threshold |-> 50],
      [enable_international |-> TRUE, name_threshold |-> 95, product_threshold |-> 50],
      [enable_international |-> FALSE, name_threshold |-> 95, product_threshold |-> 50] }

default_international_settings ==
    [enable_international |-> TRUE, name_threshold |-> 85, product_threshold |-> 50]

\* main(): the sliders replace the detector's bars only if the box is checked;
\* nothing else reads the box
update_thresholds(international_settings) ==
    IF international_settings.enable_international
    THEN [name_threshold |-> international_settings.name_threshold,
          product_threshold |-> international_settings.product_threshold]
    ELSE default_config

Min2(a, b) == IF a <= b THEN a ELSE b

\* round(x / d) to the nearest integer, halves up (x >= 0, d > 0)
RoundDiv(x, d) == (2 * x + d) \div (2 * d)

(***************************************************************************)
(* Dates.  fmt "iso" is YYYY-MM-DD; "datetime" is a form only the          *)
(* matcher's parser accepts ('%Y-%m-%d %H:%M:%S'); "empty" is ''.          *)
(***************************************************************************)
NoDate == 0 - 1

parse_date(d) == IF d.fmt \in {"iso", "datetime"} THEN d.day ELSE NoDate

check_date_logic(ebay_date, amazon_date) ==
    LET ebay_dt == parse_date(ebay_date)
        amazon_dt == parse_date(amazon_date)
    IN  IF ebay_dt = NoDate \/ amazon_dt = NoDate
        THEN [valid |-> TRUE, status |-> "date_skip", days |-> 0]
        ELSE IF amazon_dt < ebay_dt
             THEN [valid |-> FALSE, status |-> "date_invalid", days |-> amazon_dt - ebay_dt]
             ELSE [valid |-> TRUE, status |-> "date_valid", days |-> amazon_dt - ebay_dt]

(***************************************************************************)
(* Field scorers.  The fuzzy string scorers are not modelled character by  *)
(* character: a supplier row carries the scores its address and title      *)
(* produce against the buyer `who` it was bought for; against any other    *)
(* buyer the address scorers return 0.                                     *)
(***************************************************************************)
find_best_match_in_address(ebay_order, amazon_order, field) ==
    IF ebay_order.who = amazon_order.who THEN amazon_order.prof[field] ELSE 0

calculate_title_similarity(ebay_order, amazon_order) == amazon_order.prof.title

detect_eis_pattern(amazon_order) == amazon_order.prof.eis

calculate_name_similarity(ebay_order, amazon_order) ==
    IF ebay_order.who = amazon_order.who THEN amazon_order.prof.eis_name ELSE 0

calculate_product_similarity(ebay_order, amazon_order) == amazon_order.prof.eis_product

\* InternationalMatcher.validate_dates: "For now, skip strict date validation"
validate_dates(ebay_order, amazon_order) == TRUE

create_no_match_result ==
    [is_match |-> FALSE, match_method |-> "eis_co_no_match", total_score |-> 0,
     days_difference |-> 999, date_status |-> "not_checked"]

match_international_order_weighted(ebay_order, amazon_order) ==
    LET name_similarity == calculate_name_similarity(ebay_order, amazon_order)
        product_similarity == calculate_product_similarity(ebay_order, amazon_order)
    IN  IF \/ ~detect_eis_pattern(amazon_order)
           \/ name_similarity < config.name_threshold
           \/ product_similarity < config.product_threshold
        THEN create_no_match_result
        ELSE [is_match |-> TRUE, match_method |-> "eis_co_international",
              total_score |-> Min2(InternationalCap,
                                   70 * name_similarity + 30 * product_similarity),
              days_difference |-> 0, date_status |-> "date_validation_skipped"]

match_international_order(ebay_order, amazon_order) ==
    LET name_similarity == calculate_name_similarity(ebay_order, amazon_order)
        product_similarity == calculate_product_similarity(ebay_order, amazon_order)
    IN  IF ~detect_eis_pattern(amazon_order) THEN create_no_match_result
        ELSE IF ~(name_similarity >= config.name_threshold) THEN create_no_match_result
        ELSE IF ~(product_similarity >= config.product_threshold) THEN create_no_match_result
        ELSE IF ~validate_dates(ebay_order, amazon_order) THEN create_no_match_result
        ELSE [is_match |-> TRUE, match_method |-> "eis_co_international",
              total_score |-> Min2(InternationalCap, (name_similarity + product_similarity) * 50),
              days_difference |-> 0, date_status |-> "date_validation_skipped"]

\* total_score before rounding, in hundredths of a percent
weighted_total(ebay_order, amazon_order) ==
      find_best_match_in_address(ebay_order, amazon_order, "name") * weights.name
    + find_best_match_in_address(ebay_order, amazon_order, "city") * weights.city
    + find_best_match_in_address(ebay_order, amazon_order, "state") * weights.state
    + find_best_match_in_address(ebay_order, amazon_order, "zip") * weights.zip
    + calculate_title_similarity(ebay_order, amazon_order) * weights.title

\* round(total_score, 1), still in hundredths
round1(total) == ((total + 5) \div 10) * 10

\* find_best_match_in_address_enhanced, the scorer of buyer names with
\* punctuation, begins with "from utils.data_processor import
\* enhanced_fuzzy_name_match"; utils/data_processor.py defines no such
\* function, so for a non-empty name and address the call ends in ImportError
find_best_match_in_address_enhanced(ebay_order, amazon_order) == "ImportError"

\* the calls of calculate_match_score_enhanced that end in an exception
calculate_match_score_enhanced_raises(ebay_order, amazon_order) ==
    /\ amazon_order.has_address
    /\ ebay_order.punctuation
    /\ find_best_match_in_address_enhanced(ebay_order, amazon_order) = "ImportError"

calculate_match_score_enhanced(threshold, ebay_order, amazon_order) ==
    LET total_score == weighted_total(ebay_order, amazon_order)
        d == check_date_logic(ebay_order.date, amazon_order.date)
    IN  IF ~amazon_order.has_address
        THEN [is_match |-> FALSE, match_method |-> "standard", total_score |-> 0,
              days_difference |-> 999, date_status |-> "no_address"]
        ELSE [is_match |-> (total_score >= threshold * 100) /\ d.valid,
              match_method |-> "standard",
              total_score |-> round1(total_score),
              days_difference |-> d.days,
              date_status |-> d.status]

calculate_match_score_with_international_domestic_first(threshold, ebay_order, amazon_order) ==
    LET domestic_result == calculate_match_score_enhanced(threshold, ebay_order, amazon_order)
    IN  IF domestic_result.is_match
        THEN domestic_result
        ELSE match_international_order(ebay_order, amazon_order)

calculate_match_score_with_international(threshold, ebay_order, amazon_order) ==
    LET international_result == match_international_order(ebay_order, amazon_order)
    IN  IF international_result.is_match
        THEN international_result
        ELSE calculate_match_score_enhanced(threshold, ebay_order, amazon_order)

(***************************************************************************)
(* Candidate scan and selection of match_orders.                           *)
(***************************************************************************)
amazon_composite_key(amazon_order) ==
    amazon_order.orderId \o "_" \o amazon_order.amazon_account

is_candidate_inverted(threshold, match_result) ==
    match_result.is_match /\ match_result.total_score <= threshold * 100

is_candidate_flag_only(threshold, match_result) == match_result.is_match

\* the test at the end of the inner loop body
is_candidate(threshold, match_result) ==
    match_result.is_match /\ match_result.total_score >= threshold * 100

RECURSIVE scan(_, _, _, _, _)
\* the inner loop over the supplier rows j..Len(amazon): potential_matches
scan(threshold, ebay_order, amazon, used, j) ==
    IF j > Len(amazon) THEN << >>
    ELSE LET amazon_order == amazon[j]
             key == amazon_composite_key(amazon_order)
             match_result == calculate_match_score_with_international(threshold, ebay_order, amazon_order)
             rest == scan(threshold, ebay_order, amazon, used, j + 1)
         IN  IF key \in used THEN rest
             ELSE IF is_candidate(threshold, match_result)
                  THEN << [amazon_idx |-> j,
                           amazon_composite_key |-> key,
                           match_score |-> match_result.total_score,
                           days_difference |-> match_result.days_difference,
                           match_method |-> match_result.match_method] >> \o rest
                  ELSE rest

\* the inner loop ends in an exception: a supplier row that is not skipped
\* falls through to the domestic scorer, and the domestic scorer raises
scan_raises(ebay_order, amazon, used) ==
    \E j \in 1..Len(amazon) :
        /\ amazon_composite_key(amazon[j]) \notin used
        /\ ~match_international_order(ebay_order, amazon[j]).is_match
        /\ calculate_match_score_enhanced_raises(ebay_order, amazon[j])

SetMin(S) == CHOOSE m \in S : \A x \in S : m <= x
SetMax(S) == CHOOSE m \in S : \A x \in S : m >= x

days_of(s) == { s[i].days_difference : i \in DOMAIN s }
score_of(s) == { s[i].match_score : i \in DOMAIN s }

\* Python's max(seq, key=...) returns the first maximal element
first_max(s) ==
    LET top == SetMax(score_of(s))
        i == CHOOSE k \in DOMAIN s : s[k].match_score = top /\ \A l \in 1..(k - 1) : s[l].match_score # top
    IN  s[i]

select_best_match(potential_matches) ==
    IF Len(potential_matches) = 1 THEN potential_matches[1]
    ELSE LET min_days == SetMin(days_of(potential_matches))
             closest_date_matches == SelectSeq(potential_matches, LAMBDA m : m.days_difference = min_days)
         IN  IF Len(closest_date_matches) = 1 THEN closest_date_matches[1]
             ELSE first_max(closest_date_matches)

(***************************************************************************)
(* ExchangeRateHandler.  The cache maps a date key to [rate, at, seq]: the *)
(* rate, the day it was cached and the order of insertion (cached_at is a  *)
(* microsecond timestamp, so later insertions sort later).  A service      *)
(* outcome is [kind, rate] with kind "ok" (HTTP 200 with the currency),    *)
(* "http" (any other response) or "exc" (timeout, connection error).       *)
(***************************************************************************)
NextSeq(c) == IF DOMAIN c = {} THEN 1 ELSE 1 + SetMax({ c[k].seq : k \in DOMAIN c })

Remove(c, key) == [k \in DOMAIN c \ {key} |-> c[k]]

get_cached_rate_strict(c, key, today) ==
    IF key \in DOMAIN c /\ today - c[key].at < max_cache_age_days
    THEN [rate |-> c[key].rate, cache |-> c]
    ELSE [rate |-> 0, cache |-> c]

get_cached_rate(c, key, today) ==
    IF key \in DOMAIN c
    THEN IF today - c[key].at <= max_cache_age_days
         THEN [rate |-> c[key].rate, cache |-> c]
         ELSE [rate |-> 0, cache |-> Remove(c, key)]
    ELSE [rate |-> 0, cache |-> c]

cache_rate_dropped(c, key, rate, today) == c

cache_rate_unbounded(c, key, rate, today) ==
    [k \in DOMAIN c \cup {key} |->
        IF k = key THEN [rate |-> rate, at |-> today, seq |-> NextSeq(c)] ELSE c[k]]

cache_rate(c, key, rate, today) ==
    LET oldest(c1) == {k \in DOMAIN c1 :
                         Cardinality({l \in DOMAIN c1 : c1[l].seq < c1[k].seq}) < EvictCount}
        evict(c1) == IF Cardinality(DOMAIN c1) > CacheLimit
                     THEN [k \in DOMAIN c1 \ oldest(c1) |-> c1[k]]
                     ELSE c1
        store(entry) == evict([k \in DOMAIN c \cup {key} |-> IF k = key THEN entry ELSE c[k]])
    IN  store([rate |-> rate, at |-> today, seq |-> NextSeq(c)])

check_daily_limit(cn, today) ==
    LET limit(cn1) == [ok |-> cn1.count < max_daily_requests, counter |-> cn1]
    IN  limit(IF cn.date # today THEN [count |-> 0, date |-> today] ELSE cn)

fetch_rate_from_frankfurter(cn, today, outcome) ==
    LET counted(cn1) == [cn1 EXCEPT !.count = @ + 1]
        request(lim) ==
            IF ~lim.ok
            THEN [success |-> FALSE, rate |-> 0, counter |-> lim.counter, issued |-> 0]
            ELSE IF outcome.kind = "exc"
            THEN [success |-> FALSE, rate |-> 0, counter |-> lim.counter, issued |-> 1]
            ELSE IF outcome.kind = "ok"
            THEN [success |-> TRUE, rate |-> outcome.rate, counter |-> counted(lim.counter),
                  issued |-> 1]
            ELSE [success |-> FALSE, rate |-> 0, counter |-> counted(lim.counter), issued |-> 1]
    IN  request(check_daily_limit(cn, today))

\* rate_limit_delay(): sleeps until min_request_interval has passed since the
\* last request of this handler; the result is the new last_request_time,
\* the time at which the request is sent
rate_limit_delay(last, current_time) ==
    IF current_time - last < min_request_interval
    THEN last + min_request_interval
    ELSE current_time

\* the send times of the requests one handler issues for one order: the
\* handler is built for the order (last_request_time = 0), and its second
\* request follows the first after `latency`
request_times(issued, current_time, latency) ==
    LET times(first) ==
            IF issued = 1
            THEN << first >>
            ELSE << first, rate_limit_delay(first, first + latency) >>
    IN  IF issued = 0
        THEN << >>
        ELSE times(rate_limit_delay(last_request_time, current_time))

\* get_exchange_rate(date_str) for USD -> TRY; hist and cur are what the
\* service answers to the historical and to the current-rate request
get_exchange_rate(c, cn, key, today, hist, cur) ==
    LET \* every rate obtained outside the cache is cached under the date key
        answer(rate, c1, cn1, source, issued) ==
            [success |-> TRUE, rate |-> rate, cache |-> cache_rate(c1, key, rate, today),
             counter |-> cn1, source |-> source, issued |-> issued]
        \* the current-rate request, made when the historical one failed
        second(c1, f1, f2) ==
            IF f2.success
            THEN answer(f2.rate, c1, f2.counter, "current", f1.issued + f2.issued)
            ELSE answer(FixedRate, c1, f2.counter, "fixed_unavailable", f1.issued + f2.issued)
        first(c1, f1) ==
            IF f1.success
            THEN answer(f1.rate, c1, f1.counter, "historical", f1.issued)
            ELSE second(c1, f1, fetch_rate_from_frankfurter(f1.counter, today, cur))
        miss(c1, lim) ==
            IF ~lim.ok
            THEN answer(FixedRate, c1, lim.counter, "fixed_limit", 0)
            ELSE first(c1, fetch_rate_from_frankfurter(lim.counter, today, hist))
        lookup(cached) ==
            IF cached.rate # 0
            THEN [success |-> TRUE, rate |-> cached.rate, cache |-> cached.cache,
                  counter |-> cn, source |-> "cache", issued |-> 0]
            ELSE miss(cached.cache, check_daily_limit(cn, today))
    IN  lookup(get_cached_rate(c, key, today))

\* only '%Y-%m-%d' and the other date-only formats parse; None is NoDate
parse_date_for_api(d) == IF d.fmt = "iso" THEN d.day ELSE NoDate

calculate_amazon_cost_usd(order_total, order_date, c, cn, today, hist, cur) ==
    LET convert(r) ==
            [success |-> TRUE, cost |-> RoundDiv(order_total.amt * 100, r.rate),
             rate |-> r.rate, cache |-> r.cache, counter |-> r.counter, source |-> r.source,
             issued |-> r.issued]
        with_date(api_date) ==
            IF api_date = NoDate
            THEN [success |-> FALSE, cost |-> 0, rate |-> 0, cache |-> c, counter |-> cn,
                  source |-> "none", issued |-> 0]
            ELSE convert(get_exchange_rate(c, cn, api_date, today, hist, cur))
    IN  with_date(parse_date_for_api(order_date))

(***************************************************************************)
(* calculate_single_order_profit.  A status is modelled by its             *)
(* str().strip().lower() form; Occurs lists which keywords are substrings  *)
(* of which modelled status.                                               *)
(***************************************************************************)
return_keywords == {"returned", "refunded", "refund", "cancelled", "return complete"}

Lower == [s \in {"", "Delivered", "REFUNDED", "Return Complete", "Order cancelled"} |->
            CASE s = "Delivered" -> "delivered"
              [] s = "REFUNDED" -> "refunded"
              [] s = "Return Complete" -> "return complete"
              [] s = "Order cancelled" -> "order cancelled"
              [] OTHER -> ""]

Occurs == {<<"refunded", "refunded">>, <<"refund", "refunded">>,
           <<"return complete", "return complete">>,
           <<"cancelled", "order cancelled">>}

is_returned_case_sensitive(amazon_data) ==
    \E kw \in return_keywords : <<kw, amazon_data.deliveryStatus>> \in Occurs

is_returned(amazon_data) ==
    \E keyword \in return_keywords : <<keyword, Lower[amazon_data.deliveryStatus]>> \in Occurs

Cents == 100

tier_pending_always(cost) == TRUE

\* "if amazon_cost_usd == 0.0": no earlier tier has produced a cost
tier_pending(cost) == cost = 0

\* the cost part of calculate_single_order_profit: the four-tier chain
amazon_cost(amazon_data, c, cn, today, hist, cur) ==
    LET order_total == amazon_data.orderTotal
        unchanged == [cache |-> c, counter |-> cn, source |-> "none", looked_up |-> 0,
                      issued |-> 0]
        none == [cost |-> 0, method |-> "unknown", rate |-> 0] @@ unchanged
        \* PRIORITY 1: USD direct
        priority1 ==
            IF order_total.amt > 0
            THEN [cost |-> order_total.amt * Cents,
                  method |-> "usd_direct_no_conversion", rate |-> 0] @@ unchanged
            ELSE none
        \* PRIORITY 2: TRY through the rate handler
        tagged(r, sess) ==
            IF order_total.amt > 0 /\ r.cost > 0
            THEN [cost |-> r.cost * Cents, method |-> "api_rate",
                  rate |-> RoundDiv(order_total.amt * 100, r.cost)] @@ sess
            ELSE [cost |-> r.cost * Cents, method |-> "api_conversion_success",
                  rate |-> 0] @@ sess
        priority2(r) ==
            IF r.success
            THEN tagged(r, [cache |-> r.cache, counter |-> r.counter, source |-> r.source,
                            looked_up |-> r.rate, issued |-> r.issued])
            ELSE none
        \* PRIORITY 3: existing USD field
        priority3(p) ==
            IF tier_pending(p.cost) /\ amazon_data.amazon_cost_usd > 0
            THEN [p EXCEPT !.cost = amazon_data.amazon_cost_usd * Cents,
                           !.method = "existing_usd_field"]
            ELSE p
        \* PRIORITY 4: fixed fallback rate
        priority4(p) ==
            IF tier_pending(p.cost) /\ order_total.cur = "TRY" /\ order_total.amt > 0
            THEN [p EXCEPT !.cost = (order_total.amt * 100 * Cents) \div FALLBACK_RATE,
                           !.method = "fallback_rate",
                           !.rate = FALLBACK_RATE]
            ELSE p
    IN  priority4(priority3(
            IF order_total.cur = "USD" THEN priority1
            ELSE IF order_total.cur = "TRY" /\ amazon_data.date.fmt # "empty"
            THEN priority2(calculate_amazon_cost_usd(order_total, amazon_data.date,
                                                     c, cn, today, hist, cur))
            ELSE none))

\* round(x, 2) of an amount x held in sub-units of a cent
round2(x) == IF x >= 0 THEN RoundDiv(x, Cents) ELSE 0 - RoundDiv(0 - x, Cents)

\* round(part / whole * 100, 2), in hundredths of a percent (whole > 0)
percent(part, whole) ==
    LET scaled(a) == (a \div whole) * 100 + RoundDiv((a % whole) * 100, whole)
    IN  IF part >= 0 THEN scaled(part * 100) ELSE 0 - scaled((0 - part) * 100)

\* margin_percent = (profit_usd / ebay_earning * 100) if ebay_earning > 0 else 0
margin_percent(profit_usd, ebay_earning) ==
    IF ebay_earning > 0 THEN percent(profit_usd, ebay_earning) ELSE 0

roi_percent_of_earnings(profit_usd, amazon_cost_usd) ==
    IF amazon_cost_usd > 0 /\ profit_usd + amazon_cost_usd > 0
    THEN percent(profit_usd, profit_usd + amazon_cost_usd)
    ELSE 0

\* roi_percent = (profit_usd / amazon_cost_usd * 100) if amazon_cost_usd > 0 else 0
roi_percent(profit_usd, amazon_cost_usd) ==
    IF amazon_cost_usd > 0 THEN percent(profit_usd, amazon_cost_usd) ELSE 0

calculate_single_order_profit_lookup_first(ebay_data, amazon_data, c, cn, today, hist, cur) ==
    LET ebay_earning == ebay_data.earning * Cents
        metrics(chain) ==
            [calculated_ebay_earning_usd |-> ebay_data.earning,
             calculated_amazon_cost_usd |-> RoundDiv(chain.cost, Cents),
             calculated_profit_usd |-> round2(ebay_earning - chain.cost),
             calculated_margin_percent |-> margin_percent(ebay_earning - chain.cost,
                                                          ebay_earning),
             calculated_roi_percent |-> roi_percent(ebay_earning - chain.cost, chain.cost),
             cost_unrounded |-> chain.cost,
             cost_calculation_method |-> chain.method,
             exchange_rate_used |-> chain.rate,
             rate_source |-> chain.source,
             rate_looked_up |-> chain.looked_up,
             issued |-> chain.issued,
             cache |-> chain.cache,
             counter |-> chain.counter]
    IN  metrics(IF is_returned(amazon_data)
                THEN [amazon_cost(amazon_data, c, cn, today, hist, cur)
                        EXCEPT !.cost = 0, !.method = "return_detected_cost_zero",
                               !.rate = 0, !.source = "none", !.looked_up = 0]
                ELSE amazon_cost(amazon_data, c, cn, today, hist, cur))

calculate_single_order_profit(ebay_data, amazon_data, c, cn, today, hist, cur) ==
    LET ebay_earning == ebay_data.earning * Cents
        metrics(chain) ==
            [calculated_ebay_earning_usd |-> ebay_data.earning,
             calculated_amazon_cost_usd |-> RoundDiv(chain.cost, Cents),
             calculated_profit_usd |-> round2(ebay_earning - chain.cost),
             calculated_margin_percent |-> margin_percent(ebay_earning - chain.cost,
                                                          ebay_earning),
             calculated_roi_percent |-> roi_percent(ebay_earning - chain.cost, chain.cost),
             cost_unrounded |-> chain.cost,
             cost_calculation_method |-> chain.method,
             exchange_rate_used |-> chain.rate,
             rate_source |-> chain.source,
             rate_looked_up |-> chain.looked_up,
             issued |-> chain.issued,
             cache |-> chain.cache,
             counter |-> chain.counter]
    IN  metrics(IF is_returned(amazon_data)
                THEN [cost |-> 0, method |-> "return_detected_cost_zero", rate |-> 0,
                      cache |-> c, counter |-> cn, source |-> "none", looked_up |-> 0,
                      issued |-> 0]
                ELSE amazon_cost(amazon_data, c, cn, today, hist, cur))

(***************************************************************************)
(* Input ledgers.                                                          *)
(***************************************************************************)
Day0 == 100
Today == 200

Iso(day) == [day |-> day, fmt |-> "iso"]

NoEis == [eis |-> FALSE, eis_name |-> 0, eis_product |-> 0]

\* address and title agree completely: 100.0
Strong == [name |-> 100, city |-> 100, state |-> 100, zip |-> 100, title |-> 100] @@ NoEis
\* 30 + 25 + 15 = 70.0 exactly
Border == [name |-> 100, city |-> 0, state |-> 0, zip |-> 100, title |-> 60] @@ NoEis
\* 30 + 12 + 8 + 12.5 = 62.5
Mid == [name |-> 100, city |-> 100, state |-> 100, zip |-> 0, title |-> 50] @@ NoEis
\* 29.7 + 25 + 15.25 = 69.95, which rounds to 70.0
NearMiss == [name |-> 99, city |-> 0, state |-> 0, zip |-> 100, title |-> 61] @@ NoEis
\* forwarding-warehouse address: (90 + 60) / 2 = 75.0
Intl == [name |-> 0, city |-> 0, state |-> 0, zip |-> 0, title |-> 60,
         eis |-> TRUE, eis_name |-> 90, eis_product |-> 60]
\* forwarding-warehouse address at the detector's own bars: (85 + 50) / 2 = 67.5
IntlLow == [name |-> 0, city |-> 0, state |-> 0, zip |-> 0, title |-> 50,
            eis |-> TRUE, eis_name |-> 85, eis_product |-> 50]
\* forwarding-warehouse address with name and product agreeing completely
IntlTop == [name |-> 0, city |-> 0, state |-> 0, zip |-> 0, title |-> 100,
            eis |-> TRUE, eis_name |-> 100, eis_product |-> 100]

\* forwarding-warehouse address that also agrees with the buyer's own address:
\* (90 + 60) / 2 = 75.0 to the detector, 30 + 25 + 15 = 70.0 to the domestic scorer
IntlBoth == [name |-> 100, city |-> 0, state |-> 0, zip |-> 100, title |-> 60,
             eis |-> TRUE, eis_name |-> 90, eis_product |-> 60]

UsdTotal == [cur |-> "USD", amt |-> 1500]

EbayRow(id, who, date) ==
    [order_id |-> id, who |-> who, date |-> date, earning |-> 2500, punctuation |-> FALSE]

AmazonRow(id, account, who, prof, date, status, total, cost_usd) ==
    [orderId |-> id, amazon_account |-> account, who |-> who, prof |-> prof,
     date |-> date, deliveryStatus |-> status, orderTotal |-> total,
     amazon_cost_usd |-> cost_usd, has_address |-> TRUE]

SeqsUpTo(S, n) == UNION {[1..k -> S] : k \in 1..n}

\* ledgers whose rows differ in identifiers, buyers, scores and dates
MatchEbayRows ==
    { EbayRow("E1", "p1", Iso(Day0)), EbayRow("E2", "p1", Iso(Day0)),
      EbayRow("E1", "p2", Iso(Day0)) }

NoDay == [day |-> 0, fmt |-> "empty"]

Supplier(id, account, who, prof, date) ==
    AmazonRow(id, account, who, prof, date, "Delivered", UsdTotal, 0)

MatchAmazonRows ==
    { Supplier("A1", "x", "p1", Strong, Iso(Day0 + 1)),
      Supplier("A1", "x", "p1", Strong, Iso(Day0 + 5)),
      Supplier("A1", "y", "p1", Mid, Iso(Day0 + 1)),
      Supplier("A1", "y", "p1", Border, Iso(Day0 + 1)),
      Supplier("A1", "y", "p1", NearMiss, Iso(Day0 + 1)),
      Supplier("A2", "x", "p1", Intl, Iso(Day0 + 5)),
      Supplier("A2", "x", "p1", IntlLow, Iso(Day0 + 1)),
      Supplier("A1", "x", "p2", Strong, Iso(Day0 + 1)) }

\* ledgers with unusable dates and missing identifiers
OddEbayRows == { EbayRow("E1", "p1", Iso(Day0)), EbayRow("E2", "p1", NoDay) }

OddAmazonRows ==
    { Supplier("A1", "x", "p1", Strong, Iso(Day0 - 1)),
      Supplier("A1", "x", "p1", Strong, NoDay),
      Supplier("", "x", "p1", Strong, Iso(Day0 + 5)),
      Supplier("", "x", "p1", Border, Iso(Day0 + 1)),
      Supplier("A2", "x", "p1", Intl, Iso(Day0 - 1)),
      Supplier("A2", "y", "p1", IntlTop, Iso(Day0 + 1)) }

\* supplier rows whose scores depend on the weights
WeightAmazonRows ==
    { Supplier("A1", "x", "p1", Strong, Iso(Day0 + 1)),
      Supplier("A2", "x", "p1", Mid, Iso(Day0 + 1)),
      Supplier("A3", "x", "p1", Border, Iso(Day0 + 1)),
      Supplier("A4", "x", "p1", IntlTop, Iso(Day0 + 1)) }

\* one pair whose earnings and cost differ: no earnings, a loss, a profit;
\* a dollar total, a return, a lira total priced at the fixed fallback rate
EarningEbayRows ==
    { [EbayRow("E1", "p1", Iso(Day0)) EXCEPT !.earning = e] : e \in {0, 1000, 2500} }

EarningAmazonRows ==
    { AmazonRow("A1", "x", "p1", Strong, Iso(Day0 + 1), "Delivered", UsdTotal, 0),
      AmazonRow("A1", "x", "p1", Strong, Iso(Day0 + 1), "REFUNDED", UsdTotal, 0),
      AmazonRow("A1", "x", "p1", Strong, NoDay, "Delivered",
                [cur |-> "TRY", amt |-> 50000], 0) }

\* records of unusual shape: a buyer name with punctuation ("R. Wood"), a
\* sale without a date, a supplier row without an address or without a date
ShapeEbayRows ==
    { EbayRow("E1", "p1", Iso(Day0)),
      [EbayRow("E2", "p1", Iso(Day0)) EXCEPT !.punctuation = TRUE],
      EbayRow("E3", "p1", NoDay) }

ShapeAmazonRows ==
    { Supplier("A1", "x", "p1", Strong, Iso(Day0 + 1)),
      [Supplier("A2", "x", "p1", Strong, Iso(Day0 + 1)) EXCEPT !.has_address = FALSE],
      Supplier("A3", "x", "p1", Strong, NoDay) }

\* pairs both scorers accept, for a buyer name with and without punctuation
DispatchEbayRows ==
    << [EbayRow("E1", "p1", Iso(Day0)) EXCEPT !.punctuation = TRUE],
       EbayRow("E2", "p1", Iso(Day0)) >>

DispatchAmazonRows ==
    << Supplier("A1", "x", "p1", IntlBoth, Iso(Day0 + 3)),
       Supplier("A2", "x", "p1", IntlBoth, Iso(Day0 + 2)),
       Supplier("A3", "x", "p1", Strong, Iso(Day0 + 1)) >>

\* ledgers that are matched again in the same session
RerunEbayRows == { EbayRow("E1", "p1", Iso(Day0)), EbayRow("E2", "p1", Iso(Day0)) }

RerunAmazonRows ==
    { Supplier("A1", "x", "p1", Strong, Iso(Day0 + 5)),
      Supplier("A1", "y", "p1", Mid, Iso(Day0 + 1)),
      Supplier("A2", "x", "p1", IntlLow, Iso(Day0 + 1)) }

\* one matching pair whose cost inputs and session state differ
ProfitDates == { Iso(Day0 + 1), [day |-> Day0 + 1, fmt |-> "datetime"], NoDay }

TryTotals == { [cur |-> "TRY", amt |-> 50000], [cur |-> "TRY", amt |-> 17] }

ProfitTotals == { UsdTotal, [cur |-> "USD", amt |-> 0], [cur |-> "none", amt |-> 0] } \cup TryTotals

\* every status against every total, with a fresh session
StatusAmazonRows ==
    { AmazonRow("A1", "x", "p1", Strong, Iso(Day0 + 1), st, tot, cu) :
        st \in DOMAIN Lower, tot \in ProfitTotals, cu \in {0, 1200} }

\* source-currency totals against every date form and session state
ChainAmazonRows ==
    { AmazonRow("A1", "x", "p1", Strong, d, st, tot, cu) :
        d \in ProfitDates, st \in {"Delivered", "REFUNDED"}, tot \in TryTotals,
        cu \in {0, 1200} }

\* two matched orders, each with a lira total of its own date
PaceEbayRows == << EbayRow("E1", "p1", Iso(Day0)), EbayRow("E2", "p2", Iso(Day0)) >>

PaceAmazonRows ==
    << AmazonRow("A1", "x", "p1", Strong, Iso(Day0 + 1), "Delivered",
                 [cur |-> "TRY", amt |-> 50000], 0),
       AmazonRow("A2", "x", "p2", Strong, Iso(Day0 + 2), "Delivered",
                 [cur |-> "TRY", amt |-> 50000], 0) >>

EmptyCache == [k \in {} |-> 0]

\* a session cache of n entries stored today, one after the other, for the
\* dates after Day0 + 1
FullCache(n) ==
    [k \in (Day0 + 2)..(Day0 + 1 + n) |-> [rate |-> 3300, at |-> Today, seq |-> k - Day0 - 1]]

InitCaches ==
    { EmptyCache,
      [k \in {Day0 + 1} |-> [rate |-> 3300, at |-> Today, seq |-> 1]],
      [k \in {Day0 + 1} |-> [rate |-> 3300, at |-> Today - max_cache_age_days, seq |-> 1]] }

InitCounters ==
    { [count |-> 0, date |-> Today], [count |-> max_daily_requests - 1, date |-> Today],
      [count |-> max_daily_requests, date |-> Today],
      [count |-> max_daily_requests, date |-> Today - 1] }

ServiceOutcomes ==
    [hist : { [kind |-> "ok", rate |-> 3250], [kind |-> "http", rate |-> 0], [kind |-> "exc", rate |-> 0] },
     cur : { [kind |-> "ok", rate |-> 3600], [kind |-> "http", rate |-> 0] }]

FreshSession ==
    /\ cache = EmptyCache
    /\ counter = [count |-> 0, date |-> Today]

Latencies == {50, 250}

Budget(runs, ticks, thresholds, callbacks) ==
    [runs |-> runs, ticks |-> ticks, thresholds |-> thresholds, callbacks |-> callbacks,
     latencies |-> {250}, sliders |-> {default_weights},
     international |-> {default_international_settings}]

\* no run of match_orders has started in this session
MatcherIdle ==
    /\ cfg = [threshold |-> 70, progress_callback |-> TRUE, weights |-> default_weights,
              enable_international |-> TRUE, international_config |-> default_config]
    /\ pc = "idle"
    /\ ebay_idx = 1
    /\ used_amazon_orders = {}
    /\ matches = << >>
    /\ match_counter = 1
    /\ scanlog = << >>
    /\ prev = << >>
    /\ now = Today
    /\ clock = 10 * min_request_interval
    /\ request_log = << >>
    /\ issued_today = IF counter.date = Today THEN counter.count ELSE 0
    /\ progress_log = << >>

\* nothing is being uploaded
UploadIdle ==
    /\ collection = << >>
    /\ records = << >>
    /\ upload_pc = "idle"
    /\ upload_i = 1
    /\ results = [added |-> 0, updated |-> 0, errors |-> 0]

Init ==
    /\ \/ /\ ebay_df \in SeqsUpTo(MatchEbayRows, MaxEbay)
          /\ amazon_combined_df \in SeqsUpTo(MatchAmazonRows, MaxAmazon)
          /\ FreshSession
          /\ budget = Budget(1, 0, Thresholds, {TRUE})
       \/ /\ ebay_df \in SeqsUpTo(OddEbayRows, MaxEbay)
          /\ amazon_combined_df \in SeqsUpTo(OddAmazonRows, MaxAmazon)
          /\ FreshSession
          /\ budget = Budget(1, 0, Thresholds, {TRUE})
       \/ /\ ebay_df \in SeqsUpTo(RerunEbayRows, MaxEbay)
          /\ amazon_combined_df \in SeqsUpTo(RerunAmazonRows, MaxAmazon)
          /\ FreshSession
          /\ budget = Budget(MaxRuns, 0, Thresholds, {TRUE})
       \/ /\ ebay_df \in SeqsUpTo({EbayRow("E1", "p1", Iso(Day0))}, MaxEbay)
          /\ amazon_combined_df \in SeqsUpTo({Supplier("A1", "x", "p1", Strong, Iso(Day0 + 1))}, MaxAmazon)
          /\ FreshSession
          /\ budget = Budget(MaxRuns, 0, {70}, BOOLEAN)
       \/ /\ ebay_df = << EbayRow("E1", "p1", Iso(Day0)) >>
          /\ amazon_combined_df \in [1..1 -> StatusAmazonRows]
          /\ FreshSession
          /\ budget = Budget(1, 0, {70}, {TRUE})
       \/ /\ ebay_df = << EbayRow("E1", "p1", Iso(Day0)) >>
          /\ amazon_combined_df \in [1..1 -> ChainAmazonRows]
          /\ cache \in InitCaches
          /\ counter \in InitCounters
          /\ budget = Budget(MaxRuns, MaxTicks, {70}, {TRUE})
       \/ /\ ebay_df = PaceEbayRows
          /\ amazon_combined_df = PaceAmazonRows
          /\ FreshSession
          /\ budget = [Budget(1, 0, {70}, {TRUE}) EXCEPT !.latencies = Latencies]
       \/ /\ ebay_df = << EbayRow("E1", "p1", Iso(Day0)) >>
          /\ amazon_combined_df = SubSeq(PaceAmazonRows, 1, 1)
          /\ cache \in {FullCache(CacheLimit - 1), FullCache(CacheLimit)}
          /\ counter = [count |-> 0, date |-> Today]
          /\ budget = Budget(1, 0, {70}, {TRUE})
       \/ /\ ebay_df = << EbayRow("E1", "p1", Iso(Day0)) >>
          /\ amazon_combined_df \in SeqsUpTo(WeightAmazonRows, MaxAmazon)
          /\ FreshSession
          /\ budget = [Budget(1, 0, {70}, {TRUE}) EXCEPT !.sliders = SliderSettings]
       \/ /\ ebay_df \in [1..1 -> EarningEbayRows]
          /\ amazon_combined_df \in [1..1 -> EarningAmazonRows]
          /\ FreshSession
          /\ budget = Budget(1, 0, {70}, {TRUE})
       \/ /\ ebay_df \in SeqsUpTo(ShapeEbayRows, MaxEbay)
          /\ amazon_combined_df \in SeqsUpTo(ShapeAmazonRows, MaxAmazon)
          /\ FreshSession
          /\ budget = Budget(1, 0, {70}, {TRUE})
       \/ /\ ebay_df = DispatchEbayRows
          /\ amazon_combined_df \in { SubSeq(DispatchAmazonRows, 1, 2), DispatchAmazonRows }
          /\ FreshSession
          /\ budget = [Budget(1, 0, {70}, {TRUE}) EXCEPT !.international = InternationalSettings]
    /\ MatcherIdle
    /\ UploadIdle

(***************************************************************************)
(* Actions.                                                                *)
(***************************************************************************)
\* main(): the matching button is pressed with the slider at `threshold`;
\* a new DropshippingMatcher is built and match_orders starts.  The session
\* state (rate cache, daily counter) survives from run to run.
StartRun(threshold, progress_callback, sliders, international_settings) ==
    /\ pc \in {"idle", "done", "failed"}
    /\ budget.runs > 0
    /\ threshold \in budget.thresholds
    /\ progress_callback \in budget.callbacks
    /\ sliders \in budget.sliders
    /\ international_settings \in budget.international
    /\ budget' = [budget EXCEPT !.runs = @ - 1]
    /\ prev' = IF pc = "done"
               THEN Append(prev, [cfg |-> cfg, matches |-> matches, scanlog |-> scanlog,
                                  cache |-> cache])
               ELSE prev
    /\ cfg' = [threshold |-> threshold, progress_callback |-> progress_callback,
               weights |-> accepted_weights(sliders),
               enable_international |-> international_settings.enable_international,
               international_config |-> update_thresholds(international_settings)]
    /\ pc' = "matching"
    /\ ebay_idx' = 1
    /\ used_amazon_orders' = {}
    /\ matches' = << >>
    /\ match_counter' = 1
    /\ scanlog' = << >>
    /\ progress_log' = << >>
    /\ UNCHANGED <<ledgers, session, now, pacing, upload_vars>>

create_match_record(ebay_data, amazon_data, best_match, counter_value, profit_metrics) ==
    [master_no |-> counter_value,
     ebay_idx |-> ebay_idx,
     ebay_order_number |-> ebay_data.order_id,
     amazon_idx |-> best_match.amazon_idx,
     amazon_orderid |-> amazon_data.orderId,
     amazon_account |-> amazon_data.amazon_account,
     match_score |-> best_match.match_score,
     days_difference |-> best_match.days_difference,
     is_international_order |-> (best_match.match_method = "eis_co_international"),
     calculated_ebay_earning_usd |-> profit_metrics.calculated_ebay_earning_usd,
     calculated_amazon_cost_usd |-> profit_metrics.calculated_amazon_cost_usd,
     calculated_profit_usd |-> profit_metrics.calculated_profit_usd,
     calculated_margin_percent |-> profit_metrics.calculated_margin_percent,
     calculated_roi_percent |-> profit_metrics.calculated_roi_percent,
     cost_unrounded |-> profit_metrics.cost_unrounded,
     cost_calculation_method |-> profit_metrics.cost_calculation_method,
     exchange_rate_used |-> profit_metrics.exchange_rate_used,
     rate_source |-> profit_metrics.rate_source,
     rate_looked_up |-> profit_metrics.rate_looked_up]

report_progress_twice(log, idx) == Append(Append(log, idx), idx)

\* if progress_callback: progress_callback(ebay_idx + 1, len(ebay_normalized), ...)
report_progress(log, idx) == Append(log, idx)

mark_used_dropped(used, key) == used

\* used_amazon_orders.add(best_match['amazon_composite_key'])
mark_used(used, key) == used \cup {key}

next_match_counter_stuck(c) == c

\* match_counter += 1
next_match_counter(c) == c + 1

next_ebay_idx_stuck(i) == i

\* the for loop moves to the next storefront row
next_ebay_idx(i) == i + 1

\* one iteration of match_orders' loop over the storefront rows.  The
\* candidate scan and everything after it are inside `if progress_callback:`.
MatchOrdersStep ==
    /\ pc = "matching"
    /\ ebay_idx <= Len(ebay_df)
    /\ ~(cfg.progress_callback
          /\ scan_raises(ebay_df[ebay_idx], amazon_combined_df, used_amazon_orders))
    /\ LET sent(times, latency) ==
               /\ request_log' = request_log \o times
               /\ issued_today' = issued_today + Len(times)
               /\ clock' = IF times = << >> THEN clock ELSE times[Len(times)] + latency
           record(ebay_order, amazon_data, best_match, profit_metrics, latency) ==
               /\ matches' = Append(matches,
                      create_match_record(ebay_order, amazon_data, best_match,
                                          match_counter, profit_metrics))
               /\ cache' = profit_metrics.cache
               /\ counter' = profit_metrics.counter
               /\ sent(request_times(profit_metrics.issued, clock, latency), latency)
           priced(ebay_order, amazon_data, best_match) ==
               \E svc \in ServiceOutcomes, latency \in budget.latencies :
                   record(ebay_order, amazon_data, best_match,
                          calculate_single_order_profit(ebay_order, amazon_data, cache,
                                                        counter, now, svc.hist, svc.cur),
                          latency)
           matched(ebay_order, best_match) ==
               /\ used_amazon_orders' = mark_used(used_amazon_orders,
                                                  best_match.amazon_composite_key)
               /\ match_counter' = next_match_counter(match_counter)
               /\ priced(ebay_order, amazon_combined_df[best_match.amazon_idx], best_match)
           visit(ebay_order, potential_matches) ==
               /\ scanlog' = Append(scanlog,
                      [ebay_idx |-> ebay_idx, used_before |-> used_amazon_orders,
                       scanned |-> cfg.progress_callback,
                       potential_matches |-> IF cfg.progress_callback
                                             THEN potential_matches ELSE << >>])
               /\ IF cfg.progress_callback /\ potential_matches # << >>
                  THEN matched(ebay_order, select_best_match(potential_matches))
                  ELSE UNCHANGED <<used_amazon_orders, matches, match_counter, session,
                                   pacing>>
       IN  visit(ebay_df[ebay_idx],
                 scan(cfg.threshold, ebay_df[ebay_idx], amazon_combined_df,
                      used_amazon_orders, 1))
    /\ progress_log' = IF cfg.progress_callback
                       THEN report_progress(progress_log, ebay_idx)
                       ELSE progress_log
    /\ ebay_idx' = next_ebay_idx(ebay_idx)
    /\ UNCHANGED <<ledgers, cfg, pc, prev, budget, now, upload_vars>>

\* an iteration of the loop whose scan raises: nothing in match_orders
\* catches the exception, the run ends without a result
MatchOrdersRaise ==
    /\ pc = "matching"
    /\ ebay_idx <= Len(ebay_df)
    /\ cfg.progress_callback
    /\ scan_raises(ebay_df[ebay_idx], amazon_combined_df, used_amazon_orders)
    /\ pc' = "failed"
    /\ progress_log' = report_progress(progress_log, ebay_idx)
    /\ UNCHANGED upload_vars
    /\ UNCHANGED <<ledgers, cfg, ebay_idx, used_amazon_orders, matches, match_counter,
                   scanlog, prev, budget, session, now, pacing>>

\* the loop is exhausted: match_orders returns its matches
MatchOrdersReturn ==
    /\ pc = "matching"
    /\ ebay_idx > Len(ebay_df)
    /\ pc' = "done"
    /\ UNCHANGED <<progress_log, upload_vars>>
    /\ UNCHANGED <<ledgers, cfg, ebay_idx, used_amazon_orders, matches, match_counter,
                   scanlog, prev, budget, session, now, pacing>>

\* midnight passes: datetime.now() moves to the next day
Tick ==
    /\ budget.ticks > 0
    /\ budget' = [budget EXCEPT !.ticks = @ - 1]
    /\ now' = now + 1
    /\ clock' = clock + DayLength
    /\ issued_today' = 0
    /\ UNCHANGED <<progress_log, upload_vars>>
    /\ UNCHANGED <<ledgers, cfg, pc, ebay_idx, used_amazon_orders, matches, match_counter,
                   scanlog, prev, session, request_log>>

Next ==
    \/ \E threshold \in Thresholds, progress_callback \in BOOLEAN, sliders \in SliderSettings,
          international_settings \in InternationalSettings :
          StartRun(threshold, progress_callback, sliders, international_settings)
    \/ MatchOrdersStep
    \/ MatchOrdersRaise
    \/ MatchOrdersReturn
    \/ Tick

Spec == Init /\ [][Next]_vars

TypeOK == pc \in {"idle", "matching", "done", "failed"}

(***************************************************************************)
(* utils/pocketbase_client.py: bulk_upload_records and the requests it      *)
(* makes.  A record is a dict: a field it does not carry is absent from its *)
(* domain.  The outcome of every request is an input: "ok" is status 200,   *)
(* "http" any other status, "exc" a connection error or a timeout.          *)
(***************************************************************************)
Responses == {"ok", "http", "exc"}

\* record.get(field): None, here "", when the field is absent
Get(record, field) == IF field \in DOMAIN record THEN record[field] ELSE ""

\* the records handed to bulk_upload_records
UploadRecords ==
    { [amazon_orderid |-> "A1", amazon_account |-> "x", master_no |-> 7, profit |-> 1000],
      [amazon_orderid |-> "A1", amazon_account |-> "y", master_no |-> 7, profit |-> 1000],
      [amazon_orderid |-> "A1", master_no |-> 7, profit |-> 1000],
      [amazon_orderid |-> "A2", amazon_account |-> "x", master_no |-> 8, profit |-> 1000],
      [amazon_orderid |-> "", amazon_account |-> "x", master_no |-> 9, profit |-> 1000],
      [amazon_account |-> "x", master_no |-> 9, profit |-> 1000] }

\* the collection before the upload: empty, or holding order A1 of account x
InitStores ==
    { << >>,
      << [id |-> 1, amazon_orderid |-> "A1", amazon_account |-> "x", master_no |-> 1,
          profit |-> 500] >> }

\* GET .../records?filter=...: (exists, existing_record)
check_record_exists(st, amazon_orderid, amazon_account, response) ==
    LET matching(r) ==
            /\ r.amazon_orderid = amazon_orderid
            /\ (amazon_account # "") => r.amazon_account = amazon_account
        items == SelectSeq(st, matching)
    IN  IF response = "ok" /\ items # << >>
        THEN [exists |-> TRUE, id |-> items[1].id]
        ELSE [exists |-> FALSE, id |-> 0]

\* PATCH .../records/{record_id}: the fields sent replace the stored ones
update_record(st, record_id, record, response) ==
    IF response = "ok"
    THEN [success |-> TRUE,
          store |-> [k \in DOMAIN st |->
                        IF st[k].id = record_id
                        THEN [f \in DOMAIN st[k] |->
                                 IF f \in DOMAIN record THEN record[f] ELSE st[k][f]]
                        ELSE st[k]]]
    ELSE [success |-> FALSE, store |-> st]

\* POST .../records: the record is stored under a new id, absent fields empty
upload_record(st, record, response) ==
    IF response = "ok"
    THEN [success |-> TRUE,
          store |-> Append(st, [id |-> Len(st) + 1,
                                amazon_orderid |-> record.amazon_orderid,
                                amazon_account |-> Get(record, "amazon_account"),
                                master_no |-> record.master_no,
                                profit |-> record.profit])]
    ELSE [success |-> FALSE, store |-> st]

\* update_data = record.copy(); update_data.pop("master_no", None)
update_data(record) == [f \in DOMAIN record \ {"master_no"} |-> record[f]]

UploadInit ==
    /\ ebay_df = << >>
    /\ amazon_combined_df = << >>
    /\ FreshSession
    /\ budget = Budget(0, 0, {}, {})
    /\ MatcherIdle
    /\ collection \in InitStores
    /\ records \in SeqsUpTo(UploadRecords, MaxRecords)
    /\ upload_pc = "uploading"
    /\ upload_i = 1
    /\ results = [added |-> 0, updated |-> 0, errors |-> 0]

\* one iteration of the loop of bulk_upload_records
BulkUploadStep ==
    /\ upload_pc = "uploading"
    /\ upload_i <= Len(records)
    /\ LET record == records[upload_i]
           amazon_orderid == Get(record, "amazon_orderid")
           amazon_account == Get(record, "amazon_account")
           counted(field, outcome) ==
               /\ collection' = outcome.store
               /\ results' = IF outcome.success
                             THEN [results EXCEPT ![field] = @ + 1]
                             ELSE [results EXCEPT !.errors = @ + 1]
       IN  IF amazon_orderid = ""
           THEN /\ results' = [results EXCEPT !.errors = @ + 1]
                /\ collection' = collection
           ELSE \E found \in Responses, written \in Responses :
                    LET existing == check_record_exists(collection, amazon_orderid,
                                                        amazon_account, found)
                    IN  IF existing.exists
                        THEN counted("updated", update_record(collection, existing.id,
                                                              update_data(record), written))
                        ELSE counted("added", upload_record(collection, record, written))
    /\ upload_i' = upload_i + 1
    /\ UNCHANGED <<matcher_vars, records, upload_pc>>

\* the loop is exhausted: bulk_upload_records returns its results
BulkUploadReturn ==
    /\ upload_pc = "uploading"
    /\ upload_i > Len(records)
    /\ upload_pc' = "done"
    /\ UNCHANGED <<matcher_vars, collection, records, upload_i, results>>

UploadNext ==
    \/ BulkUploadStep
    \/ BulkUploadReturn

UploadSpec == UploadInit /\ [][UploadNext]_vars

----------------------------------------------------------------------------
\* Properties of the matching run

MatchIdx == 1..Len(matches)
LogIdx == 1..Len(scanlog)
AmazonIdx == 1..Len(amazon_combined_df)
EbayRowOf(m) == ebay_df[m.ebay_idx]
AmazonRowOf(m) == amazon_combined_df[m.amazon_idx]
Matched(j) == \E k \in MatchIdx : matches[k].amazon_idx = j

\* C1: no two match records of one run carry the same supplier composite key
\* (supplier order id together with the account tag).
C1_SupplierKeyAtMostOnce ==
    \A i, k \in MatchIdx :
        i # k => ~ ( /\ matches[i].amazon_orderid = matches[k].amazon_orderid
                     /\ matches[i].amazon_account = matches[k].amazon_account )

\* a finished run in which a later storefront row was scanned against a
\* supplier row that clears the threshold for it but whose key was consumed
C1_Witness ==
    /\ pc = "done"
    /\ \E n \in LogIdx, j \in AmazonIdx :
          /\ scanlog[n].scanned
          /\ amazon_composite_key(amazon_combined_df[j]) \in scanlog[n].used_before
          /\ ~ Matched(j)
          /\ is_candidate(cfg.threshold,
                 calculate_match_score_with_international(cfg.threshold,
                     ebay_df[scanlog[n].ebay_idx], amazon_combined_df[j]))

\* C2 (as stated): no two match records carry the same storefront order
\* number, even when the number appears on several rows of the ledger.
C2_OrderNumberAtMostOnce ==
    \A i, k \in MatchIdx :
        i # k => matches[i].ebay_order_number # matches[k].ebay_order_number

\* C2 (amended): no two match records refer to the same row of the storefront
\* ledger; rows that repeat an order number are matched row by row.
C2_StorefrontRowAtMostOnce ==
    \A i, k \in MatchIdx : i # k => matches[i].ebay_idx # matches[k].ebay_idx

\* two rows with the same order number have both been matched
C2_Witness ==
    /\ pc = "done"
    /\ \E i, k \in MatchIdx :
          /\ i # k
          /\ matches[i].ebay_order_number = matches[k].ebay_order_number
          /\ matches[i].ebay_idx # matches[k].ebay_idx

\* C3: every emitted pair scores at least the configured threshold, by the
\* score of the path that accepted it (international or weighted domestic),
\* and the score written on the record is at least the threshold as well.
C3_ScoreAtLeastThreshold ==
    \A k \in MatchIdx :
        LET m == matches[k]
            intl == match_international_order(EbayRowOf(m), AmazonRowOf(m))
        IN  /\ m.match_score >= cfg.threshold * 100
            /\ IF m.is_international_order
               THEN intl.total_score >= cfg.threshold * 100
               ELSE weighted_total(EbayRowOf(m), AmazonRowOf(m)) >= cfg.threshold * 100

\* a record exactly on the threshold was emitted while a supplier row that
\* the international detector accepts, but below the threshold, was left out
C3_Witness ==
    /\ pc = "done"
    /\ \E k \in MatchIdx : matches[k].match_score = cfg.threshold * 100
    /\ \E n \in LogIdx, j \in AmazonIdx :
          LET intl == match_international_order(ebay_df[scanlog[n].ebay_idx],
                                                amazon_combined_df[j])
          IN  /\ scanlog[n].scanned
              /\ amazon_composite_key(amazon_combined_df[j]) \notin scanlog[n].used_before
              /\ intl.is_match
              /\ intl.total_score < cfg.threshold * 100
              /\ ~ Matched(j)

\* the status text of the supplier row, lower-cased, contains a return keyword
HasReturnKeyword(amazon_data) ==
    Lower[amazon_data.deliveryStatus] \in {"refunded", "return complete", "order cancelled"}

\* C4: a record whose supplier row is a return has supplier cost exactly 0,
\* whatever its total, its cost field, the cache, the counter or the service.
C4_ReturnCostsZero ==
    \A k \in MatchIdx :
        HasReturnKeyword(AmazonRowOf(matches[k]))
            => /\ matches[k].calculated_amazon_cost_usd = 0
               /\ matches[k].cost_calculation_method = "return_detected_cost_zero"

\* a returned order with a convertible total, a cost field and a cached rate
\* for its date was costed at zero
C4_Witness ==
    \E k \in MatchIdx :
        LET a == AmazonRowOf(matches[k])
        IN  /\ HasReturnKeyword(a)
            /\ a.orderTotal.cur = "TRY"
            /\ a.orderTotal.amt > 0
            /\ a.amazon_cost_usd > 0
            /\ a.date.day \in DOMAIN cache
            /\ matches[k].calculated_amazon_cost_usd = 0

----------------------------------------------------------------------------
\* Properties that compare two runs over the same ledgers

PrevIdx == 1..Len(prev)
Pairs(ms) == { <<ms[k].ebay_idx, ms[k].amazon_idx>> : k \in 1..Len(ms) }
Candidates(entry) ==
    { entry.potential_matches[i].amazon_idx : i \in 1..Len(entry.potential_matches) }

\* C5 (as stated): of two runs over the same ledgers, the one with the higher
\* threshold emits a subset of the pairs of the one with the lower threshold.
C5_MatchesShrinkWithThreshold ==
    pc = "done" =>
        \A r \in PrevIdx :
            (cfg.progress_callback /\ prev[r].cfg.progress_callback) =>
                /\ prev[r].cfg.threshold <= cfg.threshold
                      => Pairs(matches) \subseteq Pairs(prev[r].matches)
                /\ cfg.threshold <= prev[r].cfg.threshold
                      => Pairs(prev[r].matches) \subseteq Pairs(matches)

\* C5 (amended): for a storefront row scanned with the same consumed keys in
\* both runs, the candidates at the higher threshold are a subset of the
\* candidates at the lower one; the selected pairs need not be.
C5_CandidatesShrinkWithThreshold ==
    pc = "done" =>
        \A r \in PrevIdx, n \in LogIdx :
            ( /\ cfg.progress_callback /\ prev[r].cfg.progress_callback
              /\ scanlog[n].used_before = prev[r].scanlog[n].used_before ) =>
                /\ prev[r].cfg.threshold <= cfg.threshold
                      => Candidates(scanlog[n]) \subseteq Candidates(prev[r].scanlog[n])
                /\ cfg.threshold <= prev[r].cfg.threshold
                      => Candidates(prev[r].scanlog[n]) \subseteq Candidates(scanlog[n])

\* the run at the higher threshold emitted a pair that the run at the lower
\* threshold did not, although its candidates for that row were fewer
C5_Witness ==
    /\ pc = "done"
    /\ \E r \in PrevIdx, n \in LogIdx :
          /\ prev[r].cfg.threshold < cfg.threshold
          /\ scanlog[n].used_before = prev[r].scanlog[n].used_before
          /\ Candidates(scanlog[n]) # {}
          /\ Candidates(scanlog[n]) # Candidates(prev[r].scanlog[n])
          /\ ~ (Pairs(matches) \subseteq Pairs(prev[r].matches))

\* the fields of a match record that the program emits
Emitted(ms) ==
    [k \in 1..Len(ms) |->
        [f \in DOMAIN ms[k] \ {"rate_source", "rate_looked_up", "cost_unrounded"} |->
            ms[k][f]]]
Pairing(ms) ==
    [k \in 1..Len(ms) |->
        <<ms[k].master_no, ms[k].ebay_idx, ms[k].amazon_idx, ms[k].match_score,
          ms[k].days_difference, ms[k].is_international_order>>]

\* C6 (as stated): a run repeated on the same ledgers with the same
\* configuration emits the same records, cost and rate fields included,
\* whatever happened to the cache, the counter and the clock in between.
C6_RerunIdentical ==
    pc = "done" =>
        \A r \in PrevIdx :
            prev[r].cfg = cfg => Emitted(matches) = Emitted(prev[r].matches)

\* every cache entry the earlier run left behind is still the entry in the cache
CacheKept(r) ==
    \A key \in DOMAIN prev[r].cache :
        key \in DOMAIN cache /\ cache[key] = prev[r].cache[key]

\* C6 (amended): the repeated run always emits the same pairing, scores and
\* ordinals; its cost, profit and rate fields are the same provided the cache
\* entries of the earlier run have neither expired nor been evicted since.
C6_RerunIdenticalWhileCacheKept ==
    pc = "done" =>
        \A r \in PrevIdx :
            prev[r].cfg = cfg =>
                /\ Pairing(matches) = Pairing(prev[r].matches)
                /\ CacheKept(r) => Emitted(matches) = Emitted(prev[r].matches)

\* the earlier run obtained its rate from outside the cache, the repeated run
\* read it from the cache, and the counter moved in between
C6_Witness ==
    /\ pc = "done"
    /\ \E r \in PrevIdx, k \in MatchIdx :
          /\ prev[r].cfg = cfg
          /\ CacheKept(r)
          /\ prev[r].matches[k].rate_source \in {"historical", "current", "fixed_unavailable"}
          /\ matches[k].rate_source = "cache"
          /\ matches[k].calculated_amazon_cost_usd > 0

----------------------------------------------------------------------------
\* Properties of selection and emission

AbsDays(ebay_order, amazon_order) ==
    LET d == amazon_order.date.day - ebay_order.date.day
    IN  IF d >= 0 THEN d ELSE 0 - d
Dated(order) == parse_date(order.date) # NoDate

\* C7 (as stated): among several candidates whose dates are known, the one
\* selected has the smallest absolute day difference, then the highest score,
\* then the earliest position in the supplier ledger.
C7_ClosestThenScoreThenOrder ==
    \A k \in MatchIdx, n \in LogIdx :
        scanlog[n].ebay_idx = matches[k].ebay_idx =>
            LET e == EbayRowOf(matches[k])
                sel == matches[k].amazon_idx
                days(j) == AbsDays(e, amazon_combined_df[j])
                score(j) == CHOOSE sc \in 0..10000 :
                               \E i \in 1..Len(scanlog[n].potential_matches) :
                                   /\ scanlog[n].potential_matches[i].amazon_idx = j
                                   /\ scanlog[n].potential_matches[i].match_score = sc
            IN  (Dated(e) /\ \A j \in Candidates(scanlog[n]) : Dated(amazon_combined_df[j]))
                => \A j \in Candidates(scanlog[n]) :
                      \/ days(sel) < days(j)
                      \/ days(sel) = days(j) /\ score(sel) > score(j)
                      \/ days(sel) = days(j) /\ score(sel) = score(j) /\ sel <= j

\* C8: records are emitted in the order of the storefront rows, the k-th
\* record has master_no k, and a record's supplier key is consumed before any
\* later storefront row is scanned.
C8_EmissionOrder ==
    /\ match_counter = Len(matches) + 1
    /\ \A k \in MatchIdx :
          /\ matches[k].master_no = k
          /\ k > 1 => matches[k - 1].ebay_idx < matches[k].ebay_idx
          /\ \A n \in LogIdx :
                scanlog[n].ebay_idx > matches[k].ebay_idx
                    => amazon_composite_key(AmazonRowOf(matches[k])) \in scanlog[n].used_before

\* two records were emitted and the second row's scan saw the first key consumed
C8_Witness ==
    /\ pc = "done"
    /\ Len(matches) = 2
    /\ matches[2].master_no = 2
    /\ \E n \in LogIdx :
          /\ scanlog[n].ebay_idx = matches[2].ebay_idx
          /\ amazon_composite_key(AmazonRowOf(matches[1])) \in scanlog[n].used_before

----------------------------------------------------------------------------
\* Properties of the cost chain

\* what each tier can offer for a supplier row, from the row and the rate
\* the handler returned for it
Tier1Offers(a) == a.orderTotal.cur = "USD" /\ a.orderTotal.amt > 0
Tier2Offers(m, a) ==
    /\ a.orderTotal.cur = "TRY"
    /\ a.date.fmt = "iso"
    /\ m.rate_looked_up > 0
    /\ RoundDiv(a.orderTotal.amt * 100, m.rate_looked_up) > 0
Tier3Offers(a) == a.amazon_cost_usd > 0
Tier4Offers(a) == a.orderTotal.cur = "TRY" /\ a.orderTotal.amt > 0

FirstTier(m, a) ==
    IF Tier1Offers(a) THEN 1
    ELSE IF Tier2Offers(m, a) THEN 2
    ELSE IF Tier3Offers(a) THEN 3
    ELSE IF Tier4Offers(a) THEN 4
    ELSE 0

TaggedTier(m) ==
    CASE m.cost_calculation_method = "usd_direct_no_conversion" -> 1
      [] m.cost_calculation_method = "api_rate" -> 2
      [] m.cost_calculation_method = "existing_usd_field" -> 3
      [] m.cost_calculation_method = "fallback_rate" -> 4
      [] OTHER -> 0

TierCost(tier, m, a) ==
    CASE tier = 1 -> a.orderTotal.amt
      [] tier = 2 -> RoundDiv(a.orderTotal.amt * 100, m.rate_looked_up)
      [] tier = 3 -> a.amazon_cost_usd
      [] tier = 4 -> RoundDiv((a.orderTotal.amt * 100 * Cents) \div FALLBACK_RATE, Cents)
      [] OTHER -> 0

C10_FallbackWhenLookupFails ==
    \A k \in MatchIdx :
        LET m == matches[k]
            a == AmazonRowOf(m)
        IN  ( /\ ~ HasReturnKeyword(a)
              /\ a.orderTotal.cur = "TRY"
              /\ a.orderTotal.amt > 0
              /\ a.amazon_cost_usd = 0
              /\ m.rate_source \in {"fixed_limit", "fixed_unavailable"} )
            => /\ m.cost_calculation_method = "fallback_rate"
               /\ m.exchange_rate_used = FALLBACK_RATE

----------------------------------------------------------------------------
\* Properties of the converted cost and of the rate handler

\* C11 (as stated): a TRY total converted with the historical rate r that the
\* service returned for the order's date is emitted with cost A / r rounded
\* to cents, exchange_rate_used equal to r, and the historical-rate tag.
C11_HistoricalRateReported ==
    \A k \in MatchIdx :
        LET m == matches[k]
            a == AmazonRowOf(m)
        IN  ( /\ ~ HasReturnKeyword(a)
              /\ a.orderTotal.cur = "TRY"
              /\ m.rate_source = "historical"
              /\ RoundDiv(a.orderTotal.amt * 100, m.rate_looked_up) > 0 )
            => /\ m.calculated_amazon_cost_usd
                     = RoundDiv(a.orderTotal.amt * 100, m.rate_looked_up)
               /\ m.cost_calculation_method = "api_rate"
               /\ m.exchange_rate_used = m.rate_looked_up


\* C12 (as stated): the requests sent to the rate service since midnight never
\* exceed max_daily_requests, whatever the outcome of each request.
C12_DailyCap == issued_today <= max_daily_requests

\* C13 (as stated): any two consecutive requests to the rate service are at
\* least min_request_interval apart, also when they serve different orders.
C13_RequestsSpaced ==
    \A i \in 1..(Len(request_log) - 1) :
        request_log[i + 1] - request_log[i] >= min_request_interval

\* the record that a step has just appended, when its cost came from the
\* rate handler
Consulted ==
    /\ Len(matches') = Len(matches) + 1
    /\ matches'[Len(matches')].rate_source # "none"

\* C14: when the handler is asked for a date whose rate is cached and at most
\* max_cache_age_days old, it returns the cached rate, sends no request and
\* leaves the counter and the cache as they are; an older entry is never
\* returned, and the entry under its key afterwards is one stored now.
C14_CacheFirst ==
    [][ Consulted =>
          LET m == matches'[Len(matches')]
              key == amazon_combined_df[m.amazon_idx].date.day
          IN  IF key \in DOMAIN cache /\ now - cache[key].at <= max_cache_age_days
              THEN /\ m.rate_source = "cache"
                   /\ m.rate_looked_up = cache[key].rate
                   /\ counter' = counter
                   /\ request_log' = request_log
                   /\ cache' = cache
              ELSE /\ m.rate_source # "cache"
                   /\ key \in DOMAIN cache' /\ cache'[key].at = now ]_vars

\* an entry exactly max_cache_age_days old has been returned
C14_Witness ==
    \E k \in MatchIdx :
        /\ matches[k].rate_source = "cache"
        /\ \E key \in DOMAIN cache :
              /\ key = amazon_combined_df[matches[k].amazon_idx].date.day
              /\ cache[key].at = now - max_cache_age_days
              /\ cache[key].rate = matches[k].rate_looked_up

\* C15: the cache never holds more than CacheLimit entries; when storing a
\* rate takes it above CacheLimit, exactly the EvictCount entries stored
\* earliest are evicted, the new entry is kept and the others are untouched.
C15_CacheBounded ==
    [][ /\ Cardinality(DOMAIN cache) <= CacheLimit
        /\ Cardinality(DOMAIN cache') <= CacheLimit
        /\ (Consulted /\ matches'[Len(matches')].rate_source # "cache") =>
              LET key == amazon_combined_df[matches'[Len(matches')].amazon_idx].date.day
                  evicted == (DOMAIN cache \cup {key}) \ DOMAIN cache'
                  kept == DOMAIN cache' \ {key}
              IN  /\ key \in DOMAIN cache'
                  /\ \A r \in kept : r \in DOMAIN cache /\ cache'[r] = cache[r]
                  /\ IF Cardinality(DOMAIN cache \cup {key}) > CacheLimit
                     THEN /\ Cardinality(evicted) = EvictCount
                          /\ \A e \in evicted, r \in kept : cache[e].seq < cache[r].seq
                     ELSE evicted = {} ]_vars

\* a rate has been stored into a cache of CacheLimit entries
C15_Witness ==
    /\ Cardinality(DOMAIN cache) = CacheLimit + 1 - EvictCount
    /\ \E k \in MatchIdx : matches[k].rate_source \notin {"cache", "none"}

----------------------------------------------------------------------------
\* Properties of the scores and of the profit figures

\* C16 (as stated): in every emitted record, domestic or international, whose
\* two order dates both parse, the supplier order is not dated before the
\* storefront sale.
C16_SupplierNotBeforeSale ==
    \A k \in MatchIdx :
        LET ebay_dt == parse_date(EbayRowOf(matches[k]).date)
            amazon_dt == parse_date(AmazonRowOf(matches[k]).date)
        IN  (ebay_dt # NoDate /\ amazon_dt # NoDate) => amazon_dt >= ebay_dt

\* the candidates of the scan log that the international detector accepted
InternationalCandidates ==
    { <<i, c>> \in UNION { {i} \X Candidates(scanlog[i]) : i \in LogIdx } :
        LET a == amazon_combined_df[c]
            e == ebay_df[scanlog[i].ebay_idx]
        IN  /\ detect_eis_pattern(a)
            /\ calculate_name_similarity(e, a) >= config.name_threshold
            /\ calculate_product_similarity(e, a) >= config.product_threshold }

CandidateOf(i, c) ==
    LET s == scanlog[i].potential_matches
    IN  s[CHOOSE n \in DOMAIN s : s[n].amazon_idx = c]

\* C17 (as stated): an accepted international match with name similarity n
\* and product similarity p is reported with score min(95, 0.7 n + 0.3 p).
C17_WeightedScore ==
    \A ic \in InternationalCandidates :
        LET a == amazon_combined_df[ic[2]]
            e == ebay_df[scanlog[ic[1]].ebay_idx]
        IN  CandidateOf(ic[1], ic[2]).match_score
               = Min2(InternationalCap, 70 * calculate_name_similarity(e, a)
                                        + 30 * calculate_product_similarity(e, a))

\* C17 (amended): an accepted international match with name similarity n and
\* product similarity p is reported with score min(95, (n + p) / 2) and with
\* the international method tag, and so is the record emitted for it.
C17_AveragedScore ==
    /\ \A ic \in InternationalCandidates :
          LET a == amazon_combined_df[ic[2]]
              e == ebay_df[scanlog[ic[1]].ebay_idx]
          IN  /\ 2 * CandidateOf(ic[1], ic[2]).match_score
                    = Min2(2 * InternationalCap,
                           100 * (calculate_name_similarity(e, a)
                                  + calculate_product_similarity(e, a)))
              /\ CandidateOf(ic[1], ic[2]).match_method = "eis_co_international"
    /\ \A k \in MatchIdx :
          LET a == AmazonRowOf(matches[k])
              e == EbayRowOf(matches[k])
          IN  matches[k].is_international_order =>
                 2 * matches[k].match_score
                    = Min2(2 * InternationalCap,
                           100 * (calculate_name_similarity(e, a)
                                  + calculate_product_similarity(e, a)))

\* one run has emitted an international record at the cap and one below it
C17_Witness ==
    /\ \E k \in MatchIdx :
          matches[k].is_international_order /\ matches[k].match_score = InternationalCap
    /\ \E k \in MatchIdx :
          matches[k].is_international_order /\ matches[k].match_score < InternationalCap
    /\ InternationalCandidates # {}

\* C18: whatever weights the run was started with, every pair of a storefront
\* row and a supplier row is scored between 0 and 100, by the domestic and by
\* the international scorer, and so is every candidate and every record.
C18_ScoreBounds ==
    pc # "idle" =>
        /\ \A i \in DOMAIN ebay_df, j \in AmazonIdx :
              LET domestic == calculate_match_score_enhanced(cfg.threshold, ebay_df[i],
                                                             amazon_combined_df[j])
                  either == calculate_match_score_with_international(cfg.threshold, ebay_df[i],
                                                                      amazon_combined_df[j])
              IN  /\ 0 <= domestic.total_score /\ domestic.total_score <= 100 * 100
                  /\ 0 <= either.total_score /\ either.total_score <= 100 * 100
        /\ \A k \in MatchIdx : 0 <= matches[k].match_score /\ matches[k].match_score <= 100 * 100

\* a run with weights taken from the sliders has emitted a domestic record
\* scored 100
C18_Witness ==
    /\ cfg.weights # default_weights
    /\ \E k \in MatchIdx :
          ~ matches[k].is_international_order /\ matches[k].match_score = 100 * 100

\* C19: every record carries profit = earnings - cost, margin = profit /
\* earnings * 100 when the earnings are positive and 0 otherwise, and roi =
\* profit / cost * 100 when the cost is positive and 0 otherwise, each figure
\* computed from the amounts before rounding and rounded to two decimals.
C19_ProfitFigures ==
    \A k \in MatchIdx :
        LET m == matches[k]
            earnings == EbayRowOf(m).earning * Cents
            cost == m.cost_unrounded
            profit == earnings - cost
        IN  /\ m.calculated_amazon_cost_usd = round2(cost)
            /\ m.calculated_profit_usd = round2(profit)
            /\ IF earnings > 0
               THEN 2 * (m.calculated_margin_percent * EbayRowOf(m).earning - profit * 100)
                        \in (0 - EbayRowOf(m).earning)..EbayRowOf(m).earning
               ELSE m.calculated_margin_percent = 0
            /\ IF cost > 0
               THEN m.calculated_roi_percent = percent(profit, cost)
               ELSE m.calculated_roi_percent = 0

\* earnings 25.00 and cost 15.00 have given profit 10.00, margin 40 % and
\* roi 66.67 %
C19_Witness ==
    \E k \in MatchIdx :
        /\ EbayRowOf(matches[k]).earning = 25 * Cents
        /\ matches[k].calculated_amazon_cost_usd = 15 * Cents
        /\ matches[k].calculated_profit_usd = 10 * Cents
        /\ matches[k].calculated_margin_percent = 40 * 100
        /\ matches[k].calculated_roi_percent = 6667

----------------------------------------------------------------------------
\* Properties of the run as a whole

\* C20 (as stated): no record, whatever its shape, makes match_orders end in
\* an exception: the run visits every storefront row and returns.
C20_NeverAborts ==
    /\ pc # "failed"
    /\ (pc = "done") => Len(scanlog) = Len(ebay_df)

\* C21 (as stated, match_orders): a supplier row without an order identifier
\* is skipped, so no emitted record pairs a storefront order with one.
C21_NoIdentifierNeverMatched ==
    \A k \in MatchIdx : AmazonRowOf(matches[k]).orderId # ""

\* C22: in a run with a progress callback, the callback has been invoked
\* once for each storefront row reached so far, in input order and before the
\* row's scan (also for a row whose scan then raised); at the return it has
\* been invoked once for every row.
C22_ProgressOncePerOrder ==
    (pc # "idle" /\ cfg.progress_callback) =>
        /\ Len(progress_log) = IF pc = "failed" THEN ebay_idx ELSE ebay_idx - 1
        /\ \A i \in DOMAIN progress_log : progress_log[i] = i
        /\ \A i \in LogIdx : scanlog[i].ebay_idx = progress_log[i]
        /\ (pc = "done") => Len(progress_log) = Len(ebay_df)

\* a run with a callback over MaxEbay storefront rows has returned
C22_Witness ==
    /\ pc = "done"
    /\ cfg.progress_callback
    /\ Len(ebay_df) = MaxEbay
    /\ progress_log = [i \in 1..MaxEbay |-> i]

\* C23 (as stated): a run without a progress callback emits the records that
\* a run with one emits on the same ledgers, thresholds and weights.
C23_CallbackIndependent ==
    pc = "done" =>
        \A r \in PrevIdx :
            (/\ prev[r].cfg.threshold = cfg.threshold
             /\ prev[r].cfg.weights = cfg.weights) =>
                Pairing(matches) = Pairing(prev[r].matches)

\* the fields a candidate keeps of the scoring result it came from
Kept(match_result) ==
    <<match_result.total_score, match_result.match_method, match_result.days_difference>>
KeptBy(candidate) ==
    <<candidate.match_score, candidate.match_method, candidate.days_difference>>

\* C24: a scanned pair the international detector accepts is a candidate with
\* the detector's score, method and day difference, whatever the domestic
\* scorer would have said; any other candidate carries the domestic result;
\* and the domestic scorer has not run on a pair the detector accepted (a
\* buyer name with punctuation, on which the domestic scorer raises, is
\* scanned to the end when the detector accepts every row it is scored with).
C24_InternationalFirst ==
    \A i \in LogIdx :
        scanlog[i].scanned =>
            LET e == ebay_df[scanlog[i].ebay_idx]
            IN  \A j \in AmazonIdx :
                    LET a == amazon_combined_df[j]
                        international_result == match_international_order(e, a)
                    IN  amazon_composite_key(a) \notin scanlog[i].used_before =>
                            /\ international_result.is_match =>
                                   /\ j \in Candidates(scanlog[i])
                                        <=> international_result.total_score >= cfg.threshold * 100
                                   /\ j \in Candidates(scanlog[i]) =>
                                          KeptBy(CandidateOf(i, j)) = Kept(international_result)
                            /\ ~international_result.is_match =>
                                   /\ ~calculate_match_score_enhanced_raises(e, a)
                                   /\ j \in Candidates(scanlog[i]) =>
                                          KeptBy(CandidateOf(i, j))
                                            = Kept(calculate_match_score_enhanced(cfg.threshold, e, a))

\* a record came through the detector for a pair the domestic scorer accepts
\* too, with another score and day difference, and for a buyer name on which
\* the domestic scorer raises
C24_Witness ==
    \E k \in MatchIdx :
        LET e == EbayRowOf(matches[k])
            a == AmazonRowOf(matches[k])
            domestic_result == calculate_match_score_enhanced(cfg.threshold, e, a)
        IN  /\ matches[k].is_international_order
            /\ domestic_result.is_match
            /\ domestic_result.total_score # matches[k].match_score
            /\ domestic_result.days_difference # matches[k].days_difference
            /\ calculate_match_score_enhanced_raises(e, a)

C26_EveryOrderSettled ==
    pc \in {"done", "failed"} =>
        /\ Len(scanlog) = Len(ebay_df)
        /\ \A i \in LogIdx :
              /\ scanlog[i].ebay_idx = i
              /\ \/ /\ Cardinality({k \in MatchIdx : matches[k].ebay_idx = i}) = 1
                    /\ Candidates(scanlog[i]) # {}
                 \/ /\ \A k \in MatchIdx : matches[k].ebay_idx # i
                    /\ Candidates(scanlog[i]) = {}

\* C27 (as stated): a supplier row is passed over in a scan only if that very
\* row was selected for an earlier storefront order; selecting one row never
\* removes a different row from the later scans.
C27_OnlySelectedRowsSkipped ==
    \A i \in LogIdx : \A j \in AmazonIdx :
        amazon_composite_key(amazon_combined_df[j]) \in scanlog[i].used_before =>
            \E k \in MatchIdx :
                /\ matches[k].amazon_idx = j
                /\ matches[k].ebay_idx < scanlog[i].ebay_idx

\* C28 (as stated): an entry is stored in the cache under the key of a
\* historical date only by a lookup that the service answered for that date,
\* and it holds the rate of that answer; a current-day rate and the fixed
\* constant are never stored under the date's key.
C28_OnlyHistoricalRatesCached ==
    [][ \A key \in DOMAIN cache' :
            (key \notin DOMAIN cache \/ cache'[key] # cache[key]) =>
                /\ Consulted
                /\ key = amazon_combined_df[matches'[Len(matches')].amazon_idx].date.day
                /\ matches'[Len(matches')].rate_source = "historical"
                /\ cache'[key].rate = matches'[Len(matches')].rate_looked_up ]_vars

----------------------------------------------------------------------------
\* Properties of the upload

StoreIdx == 1..Len(collection)

\* C29 (as stated): bulk_upload_records never leaves the collection with two
\* records of the same (amazon_orderid, amazon_account), whatever the outcome
\* of the existence check.
C29_NoDuplicateKeys ==
    \A a, b \in StoreIdx :
        (/\ collection[a].amazon_orderid = collection[b].amazon_orderid
         /\ collection[a].amazon_account = collection[b].amazon_account) => a = b

----------------------------------------------------------------------------
\* Properties of the settings of main()

\* C30 (as stated): in a run started with 'Enable eIS CO International
\* Matching' unchecked no record comes through the international detector;
\* every record is flagged is_international_order = False.
C30_DisabledMeansDomestic ==
    ~cfg.enable_international =>
        \A k \in MatchIdx : ~matches[k].is_international_order

====
